---- MODULE Spec2Model ----
(***************************************************************************)
(* A model of PyWordNetSimilarity: the Extended Lesk overlap scorer        *)
(* (extended_lesk.py), the relation file reader                            *)
(* (wordnet_similarity_dat_reader.py) and the WordNet wrappers             *)
(* (wordnet_wrappers.py).                                                  *)
(*                                                                         *)
(* Tokens are integers: a word is a positive integer, a separator marker   *)
(* (int(uuid4()) in the source) is a negative integer drawn from a counter *)
(* that never repeats.  Python's str/int tokens never compare equal; here  *)
(* words and markers never share a sign.                                   *)
(***************************************************************************)
EXTENDS Integers, Sequences, FiniteSets, TLC

\* ---------------------------------------------------------------- bounds
\* Size of the vocabulary the scorer's input sequences are drawn from.
NumWords == 3
\* Longest token sequence handed to getTextOverlapScore in Spec.
MaxLen == 4
\* Deepest nesting of relation names in a chain of a relation file line.
MaxNest == 2
\* Most relation lines read_relation_file reads in SpecReader.
MaxLines == 2
\* Most relation lines of a relation file in SpecLesk.
MaxLeskLines == 2
\* Most synsets in a group handed to getSynsetRelatedness.
MaxGroup == 2

\* Longest token list handed to a call that is followed to its end
MaxTermLen == 2
\* Most relatedness calls made on one ExtendedLesk object in SpecCalls.
MaxCalls == 2

VARIABLES
    stopwords,    \* self.stopwords
    arg_a, arg_b, \* the caller's token lists
    text_a,       \* the scorer's working copy of text_a
    text_b,       \* the scorer's working copy of text_b
    score,        \* local score
    match_found,  \* local match_found
    uuid,         \* number of int(uuid4()) values drawn so far
    pc,           \* position of the getTextOverlapScore call
    result,       \* value returned by getTextOverlapScore
    orig_a,       \* history: for each element of text_a, its index in arg_a (-1: a marker)
    orig_b,       \* history: for each element of text_b, its index in arg_b (-1: a marker)
    matches,      \* history: the matches extracted so far, in order
    rpc,          \* position of the read_relation_file call
    header,       \* read_relation_file: local header (the file's first line)
    line,         \* read_relation_file: the line the for loop holds
    lineno,       \* number of lines read from the file so far
    relations,    \* read_relation_file: local relations
    compiled,     \* value returned by read_relation_file
    lpc,               \* position in ExtendedLesk.__init__ / getSynsetRelatedness
    relations_loc,     \* the relation file handed to ExtendedLesk.__init__
    self_relations,    \* self.relations
    word_a, word_b,    \* getWordRelatedness: the two words (<<>>: not called)
    synsets_a,         \* getSynsetRelatedness: synsets_a
    synsets_b,         \* getSynsetRelatedness: synsets_b
    rel_idx,           \* index of the relation the for loop of line 156 is at
    relatedness_score, \* getSynsetRelatedness: relatedness_score
    lresult,           \* value returned by getSynsetRelatedness
    cache,             \* the lists functools.lru_cache holds for the _get_ wrappers
    calls              \* number of relatedness calls that have returned

scorerVars == <<stopwords, arg_a, arg_b, text_a, text_b, score, match_found,
                uuid, pc, result, orig_a, orig_b, matches>>

readerVars == <<rpc, header, line, lineno, relations, compiled>>

leskVars == <<lpc, relations_loc, self_relations, word_a, word_b, synsets_a,
              synsets_b, rel_idx, relatedness_score, lresult, cache, calls>>

vars == <<scorerVars, readerVars, leskVars>>

\* The variables of a part of the program that a specification leaves out.
ScorerIdle ==
    /\ stopwords = {}
    /\ arg_a = <<>>
    /\ arg_b = <<>>
    /\ text_a = <<>>
    /\ text_b = <<>>
    /\ score = 0
    /\ match_found = FALSE
    /\ uuid = 0
    /\ pc = "unused"
    /\ result = -1
    /\ orig_a = <<>>
    /\ orig_b = <<>>
    /\ matches = <<>>

ReaderIdle ==
    /\ rpc = "unused"
    /\ header = <<>>
    /\ line = <<>>
    /\ lineno = 0
    /\ relations = <<>>
    /\ compiled = <<>>

LeskIdle ==
    /\ lpc = "unused"
    /\ relations_loc = <<>>
    /\ self_relations = <<>>
    /\ word_a = <<>>
    /\ word_b = <<>>
    /\ synsets_a = <<>>
    /\ synsets_b = <<>>
    /\ rel_idx = 0
    /\ relatedness_score = [k |-> "fin", v |-> 0]
    /\ lresult = [k |-> "none", v |-> 0]
    /\ cache = [k \in {} |-> <<>>]
    /\ calls = 0

\* ------------------------------------------------------- Python helpers
Min(x, y) == IF x <= y THEN x ELSE y

\* s[lo:hi] for 0 <= lo and 0 <= hi; Python clamps both ends to len(s)
Slice(s, lo, hi) == SubSeq(s, Min(lo, Len(s)) + 1, Min(hi, Len(s)))

\* s[lo:hi] = r, the slice assignment of lines 127-128
ReplaceSlice(s, lo, hi, r) == SubSeq(s, 1, lo) \o r \o SubSeq(s, hi + 1, Len(s))

\* reversed(s)
Reversed(s) == [i \in 1..Len(s) |-> s[Len(s) + 1 - i]]

\* All sequences over S of length at most n
SeqsUpTo(S, n) == UNION {[1..k -> S] : k \in 0..n}

\* The n-th value int(uuid4()) returns: fresh, and never a word.
Uuid4(n) == -(n + 1)

\* ------------------------------------------------------ extended_lesk.py
RECURSIVE _getLeadingStopwordCount(_)
_getLeadingStopwordCount(text) ==
    IF text = <<>> THEN 0
    ELSE IF Head(text) \in stopwords
         THEN 1 + _getLeadingStopwordCount(Tail(text))
         ELSE 0

\* Mutant: every stopword of the match is left out, not only the boundary runs.
lengthWithoutAnyStopword(matched_text) ==
    Cardinality({i \in DOMAIN matched_text : matched_text[i] \notin stopwords})

\* Mutant: only the leading stopwords are left out.
lengthWithoutLeadingStopwords(matched_text) ==
    Len(matched_text) - _getLeadingStopwordCount(matched_text)

_lengthWithoutStopwords(matched_text) ==
    LET match_length == Len(matched_text) - _getLeadingStopwordCount(matched_text)
    IN  IF match_length > 0
        THEN match_length - _getLeadingStopwordCount(Reversed(matched_text))
        ELSE match_length

\* Length of the common run of a and b starting at 0-based i and j.
RECURSIVE RunLength(_, _, _, _)
RunLength(a, b, i, j) ==
    IF i >= Len(a) \/ j >= Len(b) THEN 0
    ELSE IF a[i + 1] # b[j + 1] THEN 0
         ELSE 1 + RunLength(a, b, i + 1, j + 1)

\* Mutant: the matching block that starts earliest in a, whatever its length.
find_first_match(a, b) ==
    LET I == 0..(Len(a) - 1)
        J == 0..(Len(b) - 1)
        hits == {<<i, j>> \in I \X J : RunLength(a, b, i, j) > 0}
    IN  IF hits = {} THEN [a_start |-> 0, b_start |-> 0, length |-> 0]
        ELSE LET h == CHOOSE x \in hits :
                         \A y \in hits : x[1] < y[1] \/ (x[1] = y[1] /\ x[2] <= y[2])
             IN  [a_start |-> h[1], b_start |-> h[2],
                  length |-> RunLength(a, b, h[1], h[2])]

\* difflib.SequenceMatcher(None, a, b, autojunk=False)
\*     .find_longest_match(0, len(a), 0, len(b)):
\* the longest matching block; of those, the one starting earliest in a; of
\* those, the one starting earliest in b; (0, 0, 0) when nothing matches.
find_longest_match(a, b) ==
    LET I == 0..(Len(a) - 1)
        J == 0..(Len(b) - 1)
        run == [i \in I, j \in J |-> RunLength(a, b, i, j)]
        best == IF I = {} \/ J = {} THEN 0
                ELSE CHOOSE k \in {run[i, j] : i \in I, j \in J} :
                        \A i \in I, j \in J : run[i, j] <= k
    IN  IF best = 0 THEN [a_start |-> 0, b_start |-> 0, length |-> 0]
        ELSE LET i0 == CHOOSE i \in I :
                          /\ \E j \in J : run[i, j] = best
                          /\ \A i2 \in I : (\E j \in J : run[i2, j] = best) => i <= i2
                 j0 == CHOOSE j \in J :
                          /\ run[i0, j] = best
                          /\ \A j2 \in J : run[i0, j2] = best => j <= j2
             IN  [a_start |-> i0, b_start |-> j0, length |-> best]

\* Mutant: the slice is taken from text_b with text_a's indices.
MatchedTextFromB(ta, tb, m) == Slice(tb, m.a_start, m.a_start + m.length)

\* The slice handed to _lengthWithoutStopwords on line 121.
MatchedText(ta, tb, m) == Slice(ta, m.a_start, m.a_start + m.length)

\* Mutant: the match is left in place in text_b.
ReplaceInBForgotten(tb, m, u) == tb

\* The replacement of the match in text_b, line 128.
ReplaceInB(tb, m, u) == ReplaceSlice(tb, m.b_start, m.b_start + m.length, <<Uuid4(u + 1)>>)

\* Mutant: a match made only of stopwords is left in place.
LoopBodyKeepingStopwordMatches(ta, tb, sc, u) ==
    LET m == find_longest_match(ta, tb)
        kept == m.length > 0 /\ _lengthWithoutStopwords(MatchedText(ta, tb, m)) = 0
    IN  [text_a |-> IF m.length = 0 \/ kept THEN ta
                    ELSE ReplaceSlice(ta, m.a_start, m.a_start + m.length, <<Uuid4(u)>>),
         text_b |-> IF m.length = 0 \/ kept THEN tb ELSE ReplaceInB(tb, m, u),
         score |-> IF m.length = 0 \/ kept THEN sc
                   ELSE sc + _lengthWithoutStopwords(MatchedText(ta, tb, m))
                             * _lengthWithoutStopwords(MatchedText(ta, tb, m)),
         uuid |-> IF m.length = 0 \/ kept THEN u ELSE u + 2,
         match_found |-> m.length > 0,
         match |-> m,
         length_without_stopwords |-> IF m.length = 0 THEN 0
                                      ELSE _lengthWithoutStopwords(MatchedText(ta, tb, m))]

\* One pass through the body of the while loop, lines 117-138, from working
\* copies ta and tb, running total sc, and u markers drawn so far.
LoopBody(ta, tb, sc, u) ==
    LET m == find_longest_match(ta, tb)
    IN  IF m.length > 0
        THEN LET length_without_stopwords ==
                     _lengthWithoutStopwords(MatchedText(ta, tb, m))
             IN  [text_a |-> ReplaceSlice(ta, m.a_start, m.a_start + m.length,
                                          <<Uuid4(u)>>),
                  text_b |-> ReplaceInB(tb, m, u),
                  score |-> sc + length_without_stopwords * length_without_stopwords,
                  uuid |-> u + 2,
                  match_found |-> TRUE,
                  match |-> m,
                  length_without_stopwords |-> length_without_stopwords]
        ELSE [text_a |-> ta, text_b |-> tb, score |-> sc, uuid |-> u,
              match_found |-> FALSE, match |-> m, length_without_stopwords |-> 0]

\* The while loop of lines 116-138 run to its end.
RECURSIVE WhileMatchFound(_, _, _, _)
WhileMatchFound(ta, tb, sc, u) ==
    LET r == LoopBody(ta, tb, sc, u)
    IN  IF r.match_found
        THEN WhileMatchFound(r.text_a, r.text_b, r.score, r.uuid)
        ELSE r

\* getTextOverlapScore as a function of its arguments (lines 109-140), the
\* call starting when u markers have been drawn.
getTextOverlapScoreFrom(a, b, u) == WhileMatchFound(a, b, 0, u)

getTextOverlapScore(a, b) == getTextOverlapScoreFrom(a, b, 0).score

\* ---------------------------------------------- the scorer, step by step
Words == 1..NumWords

\* Stopword sets, up to renaming of the words.
StopwordSets == {1..k : k \in 0..NumWords}

Init ==
    /\ stopwords \in StopwordSets
    /\ arg_a \in SeqsUpTo(Words, MaxLen)
    /\ arg_b \in SeqsUpTo(Words, MaxLen)
    /\ text_a = <<>>
    /\ text_b = <<>>
    /\ score = 0
    /\ match_found = FALSE
    /\ uuid = 0
    /\ pc = "idle"
    /\ result = -1
    /\ orig_a = <<>>
    /\ orig_b = <<>>
    /\ matches = <<>>
    /\ ReaderIdle
    /\ LeskIdle

\* Lines 109-115: copy the arguments, score = 0, match_found = True.
Call ==
    /\ pc = "idle"
    /\ text_a' = arg_a
    /\ text_b' = arg_b
    /\ score' = 0
    /\ match_found' = TRUE
    /\ pc' = "loop"
    /\ orig_a' = [i \in 1..Len(arg_a) |-> i - 1]
    /\ orig_b' = [i \in 1..Len(arg_b) |-> i - 1]
    /\ matches' = <<>>
    /\ UNCHANGED <<stopwords, arg_a, arg_b, uuid, result, readerVars, leskVars>>

\* Lines 116-138: one iteration of the while loop.
Iterate ==
    /\ pc = "loop"
    /\ match_found
    /\ \E r \in {LoopBody(text_a, text_b, score, uuid)} :
       LET m == r.match
       IN  /\ text_a' = r.text_a
           /\ text_b' = r.text_b
           /\ score' = r.score
           /\ uuid' = r.uuid
           /\ match_found' = r.match_found
           /\ IF r.match_found
              THEN /\ orig_a' = ReplaceSlice(orig_a, m.a_start, m.a_start + m.length, <<-1>>)
                   /\ orig_b' = ReplaceSlice(orig_b, m.b_start, m.b_start + m.length, <<-1>>)
                   /\ matches' = Append(matches,
                          [a_start |-> m.a_start, b_start |-> m.b_start,
                           length |-> m.length,
                           text |-> Slice(text_a, m.a_start, m.a_start + m.length),
                           text_in_b |-> Slice(text_b, m.b_start, m.b_start + m.length),
                           a_pos |-> Slice(orig_a, m.a_start, m.a_start + m.length),
                           b_pos |-> Slice(orig_b, m.b_start, m.b_start + m.length),
                           added |-> r.score - score])
              ELSE UNCHANGED <<orig_a, orig_b, matches>>
    /\ UNCHANGED <<stopwords, arg_a, arg_b, pc, result, readerVars, leskVars>>

\* Line 140: return score.
Return ==
    /\ pc = "loop"
    /\ ~match_found
    /\ result' = score
    /\ pc' = "returned"
    /\ UNCHANGED <<stopwords, arg_a, arg_b, text_a, text_b, score, match_found,
                   uuid, orig_a, orig_b, matches, readerVars, leskVars>>

Next == Call \/ Iterate \/ Return

Spec == Init /\ [][Next]_vars

\* A call that has started runs on: the interpreter takes the next step of
\* the while loop as long as there is one.
InitTerm ==
    /\ Init
    /\ Len(arg_a) <= MaxTermLen
    /\ Len(arg_b) <= MaxTermLen

FairSpec == InitTerm /\ [][Next]_vars /\ WF_vars(Next)

\* ------------------------------------------ wordnet_similarity_dat_reader.py
(***************************************************************************)
(* A line of a relation file is a sequence of atoms: a relation name, a    *)
(* weight word, "(", ")", "-" or " ".  The newline that ends a line is     *)
(* left out: it can only follow the "-", where split() and strip() drop    *)
(* it.  No two or more atoms used below join into a key of                 *)
(* WORDNET_SIM_FUNC_MAP or into a string float() accepts, so a key or a     *)
(* float is always a single atom.                                          *)
(***************************************************************************)

\* str.lower() on an atom
Lower(atom) ==
    CASE atom = "Hype" -> "hype"
      [] atom = "Glos" -> "glos"
      [] atom = "NaN" -> "nan"
      [] atom = "RelationFile" -> "relationfile"
      [] atom = "Vehicle" -> "vehicle"
      [] atom = "Car" -> "car"
      [] OTHER -> atom

\* line.lower()
LowerAll(s) == [i \in DOMAIN s |-> Lower(s[i])]

\* str.split(sep) for a one-character sep: every piece, the empty ones too
RECURSIVE SplitOn(_, _)
SplitOn(s, sep) ==
    IF \A i \in DOMAIN s : s[i] # sep THEN <<s>>
    ELSE LET i == CHOOSE k \in DOMAIN s :
                      s[k] = sep /\ \A k2 \in 1..(k - 1) : s[k2] # sep
         IN  <<SubSeq(s, 1, i - 1)>> \o SplitOn(SubSeq(s, i + 1, Len(s)), sep)

NonEmpty(piece) == piece # <<>>

\* str.split(): the pieces between runs of whitespace, none empty
SplitWhitespace(s) == SelectSeq(SplitOn(s, " "), NonEmpty)

\* str.strip()
RECURSIVE Strip(_)
Strip(s) ==
    IF s = <<>> THEN s
    ELSE IF Head(s) = " " THEN Strip(Tail(s))
    ELSE IF s[Len(s)] = " " THEN Strip(SubSeq(s, 1, Len(s) - 1))
    ELSE s

\* A float: a finite value (integer-valued here), or nan, or inf.
Fin(n) == [k |-> "fin", v |-> n]
NaN == [k |-> "nan", v |-> 0]
Inf == [k |-> "inf", v |-> 0]

\* float(weight_str), line 63: the value, or [k |-> "ValueError"].
FloatOf(weight_str) ==
    IF Len(weight_str) # 1 THEN [k |-> "ValueError", v |-> 0]
    ELSE CASE weight_str[1] = "2.0" -> Fin(2)
           [] weight_str[1] = "3" -> Fin(3)
           [] weight_str[1] = "0" -> Fin(0)
           [] weight_str[1] = "nan" -> NaN
           [] weight_str[1] = "inf" -> Inf
           [] weight_str[1] = "infinity" -> Inf
           [] OTHER -> [k |-> "ValueError", v |-> 0]

\* Lines 10-21.
WORDNET_SIM_FUNC_MAP ==
    [t \in {"also", "attr", "example", "glos", "holo", "hype", "hypo", "mero",
            "pert", "sim", "syns"} |->
        CASE t = "also" -> "get_also_sees"
          [] t = "attr" -> "get_attributes"
          [] t = "example" -> "concat_examples"
          [] t = "glos" -> "concat_definitions"
          [] t = "holo" -> "get_holonyms"
          [] t = "hype" -> "get_hypernyms"
          [] t = "hypo" -> "get_holonyms"
          [] t = "mero" -> "get_meronyms"
          [] t = "pert" -> "get_pertainyms"
          [] t = "sim" -> "get_similar_tos"
          [] t = "syns" -> "concat_lemmas"]

\* Whether WORDNET_SIM_FUNC_MAP[func_str] raises no KeyError.
IsKey(func_str) == Len(func_str) = 1 /\ func_str[1] \in DOMAIN WORDNET_SIM_FUNC_MAP

\* Lines 73-82 for one side: the trailing brackets taken off the last piece.
\* ok is the side's half of the test of line 85.
RemoveTrailingBrackets(func_strs) ==
    LET num_brackets == Len(func_strs) - 1
        last == func_strs[Len(func_strs)]
    IN  IF num_brackets > 0
        THEN LET trailing == Slice(last, IF Len(last) > num_brackets
                                         THEN Len(last) - num_brackets ELSE 0,
                                   Len(last))
                 cut == Slice(last, 0, IF Len(last) > num_brackets
                                       THEN Len(last) - num_brackets ELSE 0)
             IN  [func_strs |-> [func_strs EXCEPT ![Len(func_strs)] = cut],
                  ok |-> trailing = [i \in 1..num_brackets |-> ")"]]
        ELSE [func_strs |-> func_strs, ok |-> TRUE]

\* Lines 89-107 for one side: the functions of the chain, concat_definitions
\* appended when the last name is none of glos, example, syns.
FuncsOf(func_strs) ==
    LET funcs == [i \in DOMAIN func_strs |-> WORDNET_SIM_FUNC_MAP[func_strs[i][1]]]
    IN  IF Lower(func_strs[Len(func_strs)][1]) \notin {"glos", "example", "syns"}
        THEN Append(funcs, "concat_definitions")
        ELSE funcs

\* Mutant: the weight is never read, every relation weighs 1.
WeightIgnored(b_func_str_split) == Fin(1)

\* Lines 57-66: the weight of the line (ValueError when float() raises).
WeightOf(b_func_str_split) ==
    IF Len(b_func_str_split) = 2 THEN FloatOf(b_func_str_split[2]) ELSE Fin(1)

\* The body of the for loop, lines 48-110, for one line: the relation it
\* appends, or the ValueError it raises.
ParseLine(l) ==
    LET lowered == LowerAll(l)
        halves == SplitOn(lowered, "-")
        Raise(why) == [ok |-> FALSE, error |-> why, relation |-> <<>>]
    IN  IF Len(halves) # 2 THEN Raise("improperly formatted")
        ELSE
        LET a_func_str == halves[1]
            b_func_str_split == SplitWhitespace(halves[2])
            weight == WeightOf(b_func_str_split)
            b_func_str == IF Len(b_func_str_split) = 2
                          THEN b_func_str_split[1] ELSE halves[2]
        IN  IF weight.k = "ValueError" THEN Raise("invalid weight")
            ELSE
            LET a == RemoveTrailingBrackets(SplitOn(a_func_str, "("))
                b == RemoveTrailingBrackets(SplitOn(Strip(b_func_str), "("))
            IN  IF ~a.ok \/ ~b.ok THEN Raise("not properly formatted functions")
                ELSE IF \E i \in DOMAIN a.func_strs : ~IsKey(a.func_strs[i])
                        THEN Raise("unknown function")
                ELSE IF \E i \in DOMAIN b.func_strs : ~IsKey(b.func_strs[i])
                        THEN Raise("unknown function")
                ELSE [ok |-> TRUE, error |-> "",
                      relation |-> <<FuncsOf(a.func_strs), FuncsOf(b.func_strs), weight>>]

\* Line 42: the header test.
HeaderOk(h) == Strip(h) = <<"RelationFile">>

\* read_relation_file on a whole file, the sequence of its lines.
RECURSIVE ReadLines(_, _)
ReadLines(ls, rels) ==
    IF ls = <<>> THEN [raised |-> FALSE, relations |-> rels]
    ELSE LET r == ParseLine(Head(ls))
         IN  IF r.ok THEN ReadLines(Tail(ls), Append(rels, r.relation))
             ELSE [raised |-> TRUE, relations |-> <<>>]

read_relation_file(file) ==
    IF ~HeaderOk(IF file = <<>> THEN <<>> ELSE Head(file))
    THEN [raised |-> TRUE, relations |-> <<>>]
    ELSE ReadLines(Tail(file), <<>>)

\* ------------------------------------------- the reader, line by line
\* The relation names the lines of SpecReader are written with.
ReaderNames == {"glos", "hype", "mero", "foo", "Hype"}
\* The weight words.
WeightWords == {"2.0", "nan", "abc"}

\* names[1](names[2](...names[n] followed by closers closing brackets
RECURSIVE Nest(_, _)
Nest(names, closers) ==
    IF Len(names) = 1 THEN <<names[1]>> \o [i \in 1..closers |-> ")"]
    ELSE <<names[1], "(">> \o Nest(Tail(names), closers)

ChainTexts ==
    {Nest(ns, c) : ns \in (SeqsUpTo(ReaderNames, MaxNest) \ {<<>>}), c \in 0..MaxNest}

PlainChains == {<<"glos">>}

Tails == {<<>>} \cup {<<" ", w>> : w \in WeightWords} \cup {<<" ", "2.0", " ", "2.0">>}

Dashes == {<<>>, <<"-">>, <<"-", "-">>}

Lines ==
    {<<>>, <<" ", "glos", "-", "glos">>, <<"glos", " ", "-", "glos">>,
     <<"glos", "-", " ", "glos", " ">>, <<"glos", "-", "hype", "(", " ", "glos", ")">>}
    \cup {a \o d \o b \o t : a \in ChainTexts, d \in Dashes, b \in PlainChains, t \in Tails}
    \cup {a \o d \o b \o t : a \in PlainChains, d \in Dashes, b \in ChainTexts, t \in Tails}

Headers ==
    {<<>>, <<"RelationFile">>, <<"RelationFile", " ">>, <<"relationfile">>,
     <<"glos", "-", "glos">>}

InitReader ==
    /\ ScorerIdle
    /\ LeskIdle
    /\ rpc = "open"
    /\ header = <<>>
    /\ line = <<>>
    /\ lineno = 0
    /\ relations = <<>>
    /\ compiled = <<>>

\* Lines 39-46: read the header, raise unless it is RelationFile.
ReadHeader ==
    /\ rpc = "open"
    /\ \E h \in Headers :
          /\ header' = h
          /\ rpc' = IF HeaderOk(h) THEN "lines" ELSE "raised"
    /\ lineno' = 1
    /\ relations' = <<>>
    /\ UNCHANGED <<line, compiled, scorerVars, leskVars>>

\* Lines 47-110: one pass through the for loop, on the file's next line.
ReadLine ==
    /\ rpc = "lines"
    /\ Len(relations) < MaxLines
    /\ \E l \in Lines :
          LET r == ParseLine(l)
          IN  /\ line' = l
              /\ IF r.ok
                 THEN /\ relations' = Append(relations, r.relation)
                      /\ rpc' = "lines"
                 ELSE /\ relations' = relations
                      /\ rpc' = "raised"
    /\ lineno' = lineno + 1
    /\ UNCHANGED <<header, compiled, scorerVars, leskVars>>

\* Line 112: the file is at its end, return tuple(relations).
ReturnRelations ==
    /\ rpc = "lines"
    /\ compiled' = relations
    /\ rpc' = "returned"
    /\ UNCHANGED <<header, line, lineno, relations, scorerVars, leskVars>>

NextReader == ReadHeader \/ ReadLine \/ ReturnRelations

SpecReader == InitReader /\ [][NextReader]_vars

\* --------------------------------------------------- the lexical database
(***************************************************************************)
(* A small WordNet: three synsets.  A text (a definition, an example, a    *)
(* lemma name) is a sequence of atoms: words, " " and "_".  A lemma is the *)
(* pair <<synset, index in the synset's lemmas>>.                          *)
(***************************************************************************)
Synsets == {1, 2, 3}

\* The lower-cased words of the database; a word's token is its index.
Dictionary == <<"a", "small", "large", "vehicle", "car", "bus">>

Word(w) == CHOOSE i \in DOMAIN Dictionary : Dictionary[i] = w

\* Synset.definition()
definition ==
    << <<"a", " ", "small", " ", "vehicle">>,
       <<"a", " ", "large", " ", "vehicle">>,
       <<"Vehicle", " ", "a", " ", "large">> >>

\* Synset.examples()
examples ==
    << << <<"small", " ", "Car">>, <<"a", " ", "car">> >>,
       << >>,
       << <<"large", " ", "bus">> >> >>

\* Lemma.name() of each of Synset.lemmas()
lemma_names ==
    << << <<"Car">>, <<"small", "_", "car">> >>,
       << <<"bus">> >>,
       << <<"vehicle">> >> >>

hypernyms == << <<3>>, <<3>>, <<>> >>
instance_hypernyms == << <<>>, <<1>>, <<>> >>
hyponyms == << <<>>, <<>>, <<1, 2>> >>
instance_hyponyms == << <<2>>, <<>>, <<>> >>
member_holonyms == << <<2>>, <<>>, <<>> >>
part_holonyms == << <<3>>, <<>>, <<>> >>
substance_holonyms == << <<>>, <<3>>, <<>> >>
member_meronyms == << <<>>, <<1>>, <<>> >>
part_meronyms == << <<>>, <<>>, <<1>> >>
substance_meronyms == << <<>>, <<>>, <<2>> >>
attributes == << <<2>>, <<>>, <<1>> >>
similar_tos == << <<3>>, <<1>>, <<>> >>
synset_also_sees == << <<>>, <<3>>, <<>> >>

\* Lemma.also_sees() and Lemma.pertainyms(), by lemma
lemma_also_sees(lemma) == IF lemma = <<1, 1>> THEN << <<2, 1>> >> ELSE <<>>
lemma_pertainyms(lemma) == IF lemma = <<3, 1>> THEN << <<1, 2>> >> ELSE <<>>

\* wn.synsets(name): the synsets with a lemma of that name
wn_synsets(name) ==
    LET has(s) == \E i \in DOMAIN lemma_names[s] :
                      LowerAll(lemma_names[s][i]) = LowerAll(name)
        f[i \in 0..3] == IF i = 0 THEN <<>>
                         ELSE IF has(i) THEN Append(f[i - 1], i) ELSE f[i - 1]
    IN  f[3]

\* ------------------------------------------------------ wordnet_wrappers.py
\* The concatenation of the lists ss[1], ..., ss[n]: result += ss[i]
Concat(ss) ==
    LET f[i \in 0..Len(ss)] == IF i = 0 THEN <<>> ELSE f[i - 1] \o ss[i]
    IN  f[Len(ss)]

\* The tokens of a text split into pieces (each piece one word)
TokensOf(pieces) == [i \in DOMAIN pieces |-> Word(pieces[i][1])]

\* @lru_cache(maxsize=None): the list held for the call, if there is one,
\* else the list the wrapped function returns.  The key is the wrapper's
\* name and its argument: a synset s as (s, 0), a lemma as (synset, index).
lru_cache(name, synset, i, value) ==
    IF <<name, synset, i>> \in DOMAIN cache THEN cache[<<name, synset, i>>] ELSE value

_get_lemmas(synset) ==
    lru_cache("_get_lemmas", synset, 0,
              [i \in DOMAIN lemma_names[synset] |-> <<synset, i>>])
_get_lemma_names(synset) ==
    lru_cache("_get_lemma_names", synset, 0,
              [i \in DOMAIN _get_lemmas(synset) |->
                  LowerAll(lemma_names[synset][_get_lemmas(synset)[i][2]])])
_get_also_sees(synset) ==
    lru_cache("_get_also_sees", synset, 0, synset_also_sees[synset])
\* _get_also_sees called with a lemma, line 209
_get_also_sees_of_lemma(lemma) ==
    lru_cache("_get_also_sees", lemma[1], lemma[2], lemma_also_sees(lemma))
_get_hypernyms(synset) ==
    lru_cache("_get_hypernyms", synset, 0,
              hypernyms[synset] \o instance_hypernyms[synset])
_get_hyponyms(synset) ==
    lru_cache("_get_hyponyms", synset, 0,
              hyponyms[synset] \o instance_hyponyms[synset])
_get_holonyms(synset) ==
    lru_cache("_get_holonyms", synset, 0,
              member_holonyms[synset] \o part_holonyms[synset]
                  \o substance_holonyms[synset])
_get_meronyms(synset) ==
    lru_cache("_get_meronyms", synset, 0,
              member_meronyms[synset] \o part_meronyms[synset]
                  \o substance_meronyms[synset])
_get_attributes(synset) ==
    lru_cache("_get_attributes", synset, 0, attributes[synset])
_get_similar_tos(synset) ==
    lru_cache("_get_similar_tos", synset, 0, attributes[synset])
LemmaSynset(lemma) == <<lemma[1]>>
_get_pertainyms(synset) ==
    LET lemmas == _get_lemmas(synset)
        pertainyms == Concat([i \in DOMAIN lemmas |-> lemma_pertainyms(lemmas[i])])
    IN  lru_cache("_get_pertainyms", synset, 0,
                  Concat([i \in DOMAIN pertainyms |-> LemmaSynset(pertainyms[i])]))

\* Lines 105-128.  u markers have been drawn before the call.
concat_definitions(synsets, u) ==
    LET f[i \in 0..Len(synsets)] ==
            IF i = 0 THEN [items |-> <<>>, uuid |-> u]
            ELSE LET sep == IF i - 1 > 0 THEN <<Uuid4(f[i - 1].uuid)>> ELSE <<>>
                 IN  [items |-> f[i - 1].items \o sep
                                \o TokensOf(SplitWhitespace(LowerAll(definition[synsets[i]]))),
                      uuid |-> f[i - 1].uuid + Len(sep)]
    IN  f[Len(synsets)]

\* Mutant: the texts are joined with no marker between them.
ConcatTextsUnseparated(splits, i, acc) ==
    [items |-> acc.items \o Concat([j \in DOMAIN splits |-> TokensOf(splits[j])]),
     uuid |-> acc.uuid]

\* The inner loop of concat_examples and concat_lemmas: splits[j] is the
\* j-th text of the i-th synset (i counted from 0), already split.
ConcatTexts(splits, i, acc) ==
    LET g[j \in 0..Len(splits)] ==
            IF j = 0 THEN acc
            ELSE LET sep == IF i + (j - 1) > 0 THEN <<Uuid4(g[j - 1].uuid)>> ELSE <<>>
                 IN  [items |-> g[j - 1].items \o sep \o TokensOf(splits[j]),
                      uuid |-> g[j - 1].uuid + Len(sep)]
    IN  g[Len(splits)]

\* Lines 130-155: example.lower(), example.split()
concat_examples(synsets, u) ==
    LET split(synset) == [j \in DOMAIN examples[synset] |->
                              SplitWhitespace(LowerAll(examples[synset][j]))]
        f[i \in 0..Len(synsets)] ==
            IF i = 0 THEN [items |-> <<>>, uuid |-> u]
            ELSE ConcatTexts(split(synsets[i]), i - 1, f[i - 1])
    IN  f[Len(synsets)]

\* Lines 157-182: lemma_name.split("_")
concat_lemmas(synsets, u) ==
    LET split(synset) == [j \in DOMAIN _get_lemma_names(synset) |->
                              SplitOn(_get_lemma_names(synset)[j], "_")]
        f[i \in 0..Len(synsets)] ==
            IF i = 0 THEN [items |-> <<>>, uuid |-> u]
            ELSE ConcatTexts(split(synsets[i]), i - 1, f[i - 1])
    IN  f[Len(synsets)]

\* Lines 184-212.
AlsoSeesOf(synset) ==
    LET lemmas == _get_lemmas(synset)
        also_sees == Concat([i \in DOMAIN lemmas |-> _get_also_sees_of_lemma(lemmas[i])])
    IN  _get_also_sees(synset)
            \o Concat([i \in DOMAIN also_sees |-> LemmaSynset(also_sees[i])])
get_also_sees(synsets) == Concat([i \in DOMAIN synsets |-> AlsoSeesOf(synsets[i])])
get_hypernyms(synsets) == Concat([i \in DOMAIN synsets |-> _get_hypernyms(synsets[i])])
get_hyponyms(synsets) == Concat([i \in DOMAIN synsets |-> _get_hyponyms(synsets[i])])
get_holonyms(synsets) == Concat([i \in DOMAIN synsets |-> _get_holonyms(synsets[i])])
get_meronyms(synsets) == Concat([i \in DOMAIN synsets |-> _get_meronyms(synsets[i])])
get_attributes(synsets) == Concat([i \in DOMAIN synsets |-> _get_attributes(synsets[i])])
get_similar_tos(synsets) == Concat([i \in DOMAIN synsets |-> _get_similar_tos(synsets[i])])
get_pertainyms(synsets) == Concat([i \in DOMAIN synsets |-> _get_pertainyms(synsets[i])])

\* --------------------------------------- extended_lesk.py: the aggregator
\* a_func(text_a), lines 160 and 165: val is the list handed over, of kind
\* "synsets" or "tokens".  Every wrapper calls a Synset method on each
\* element: on a token (a str or an int) that raises AttributeError.
ApplyFunc(func, val) ==
    IF val.raised THEN val
    ELSE IF val.kind = "tokens" /\ val.items # <<>>
    THEN [val EXCEPT !.raised = TRUE]
    ELSE IF func \in {"concat_definitions", "concat_examples", "concat_lemmas"}
    THEN LET r == CASE func = "concat_definitions" -> concat_definitions(val.items, val.uuid)
                    [] func = "concat_examples" -> concat_examples(val.items, val.uuid)
                    [] func = "concat_lemmas" -> concat_lemmas(val.items, val.uuid)
         IN  [raised |-> FALSE, kind |-> "tokens", items |-> r.items, uuid |-> r.uuid]
    ELSE [raised |-> FALSE, kind |-> "synsets", uuid |-> val.uuid,
          items |-> CASE func = "get_also_sees" -> get_also_sees(val.items)
                      [] func = "get_attributes" -> get_attributes(val.items)
                      [] func = "get_holonyms" -> get_holonyms(val.items)
                      [] func = "get_hypernyms" -> get_hypernyms(val.items)
                      [] func = "get_hyponyms" -> get_hyponyms(val.items)
                      [] func = "get_meronyms" -> get_meronyms(val.items)
                      [] func = "get_pertainyms" -> get_pertainyms(val.items)
                      [] func = "get_similar_tos" -> get_similar_tos(val.items)]

\* Lines 157-160 (and 162-165): the chain applied step by step, in order.
RECURSIVE ApplyChainFrom(_, _)
ApplyChainFrom(funcs, val) ==
    IF funcs = <<>> THEN val
    ELSE ApplyChainFrom(Tail(funcs), ApplyFunc(Head(funcs), val))

ApplyChain(funcs, synsets, u) ==
    ApplyChainFrom(funcs, [raised |-> FALSE, kind |-> "synsets", items |-> synsets,
                           uuid |-> u])

\* The list the cache holds under key k once the wrapper has been called.
StoredValue(k) ==
    CASE k[1] = "_get_lemmas" -> _get_lemmas(k[2])
      [] k[1] = "_get_lemma_names" -> _get_lemma_names(k[2])
      [] k[1] = "_get_also_sees" ->
           IF k[3] = 0 THEN _get_also_sees(k[2])
           ELSE _get_also_sees_of_lemma(<<k[2], k[3]>>)
      [] k[1] = "_get_hypernyms" -> _get_hypernyms(k[2])
      [] k[1] = "_get_hyponyms" -> _get_hyponyms(k[2])
      [] k[1] = "_get_holonyms" -> _get_holonyms(k[2])
      [] k[1] = "_get_meronyms" -> _get_meronyms(k[2])
      [] k[1] = "_get_attributes" -> _get_attributes(k[2])
      [] k[1] = "_get_similar_tos" -> _get_similar_tos(k[2])
      [] k[1] = "_get_pertainyms" -> _get_pertainyms(k[2])

\* The cache once the wrappers have been called with the keys: a key it
\* holds keeps its list, a new key gets the list the call returned.  No
\* caller writes to a list it got from a wrapper (lines 205, 229, 247, 266,
\* 286, 305, 324, 344 extend a new list; lines 172, 208, 209 only iterate).
CacheAfter(keys) == [k \in DOMAIN cache \cup keys |-> StoredValue(k)]

\* The wrapper that a function of WORDNET_SIM_FUNC_MAP calls on each synset.
WrapperOf(func) ==
    CASE func = "get_also_sees" -> "_get_also_sees"
      [] func = "get_attributes" -> "_get_attributes"
      [] func = "get_holonyms" -> "_get_holonyms"
      [] func = "get_hypernyms" -> "_get_hypernyms"
      [] func = "get_hyponyms" -> "_get_hyponyms"
      [] func = "get_meronyms" -> "_get_meronyms"
      [] func = "get_pertainyms" -> "_get_pertainyms"
      [] func = "get_similar_tos" -> "_get_similar_tos"
      [] func = "concat_lemmas" -> "_get_lemma_names"

\* The keys of the wrapper calls that func(synsets) makes.
TouchedBy(func, synsets) ==
    IF func \in {"concat_definitions", "concat_examples"} THEN {}
    ELSE UNION {
        {<<WrapperOf(func), synsets[n], 0>>}
          \cup (IF \/ func = "get_also_sees"
                   \/ /\ func \in {"concat_lemmas", "get_pertainyms"}
                      /\ <<WrapperOf(func), synsets[n], 0>> \notin DOMAIN cache
                THEN {<<"_get_lemmas", synsets[n], 0>>}
                ELSE {})
          \cup (IF func = "get_also_sees"
                THEN {<<"_get_also_sees", synsets[n], i>> :
                          i \in DOMAIN lemma_names[synsets[n]]}
                ELSE {})
        : n \in DOMAIN synsets}

\* The keys of the wrapper calls made while a chain is applied.
RECURSIVE ChainKeysFrom(_, _)
ChainKeysFrom(funcs, val) ==
    IF funcs = <<>> \/ val.raised \/ val.kind = "tokens" THEN {}
    ELSE TouchedBy(Head(funcs), val.items)
             \cup ChainKeysFrom(Tail(funcs), ApplyFunc(Head(funcs), val))

ChainKeys(funcs, synsets, u) ==
    ChainKeysFrom(funcs, [raised |-> FALSE, kind |-> "synsets", items |-> synsets,
                          uuid |-> u])

\* Mutant: the scorer works on the caller's list itself.
CallersListAliased(passed, working) == working

\* Lines 109-110, text_a = list(text_a): the caller's list after the call,
\* the slice assignments of lines 127-128 having been made on the copy.
CallersList(passed, working) == passed

\* The matches that getTextOverlapScore extracts, in order: where each
\* starts, its length, and the tokens it covers in either text.
RECURSIVE ExtractedMatches(_, _, _)
ExtractedMatches(ta, tb, u) ==
    LET r == LoopBody(ta, tb, 0, u)
    IN  IF r.match_found
        THEN <<[a_start |-> r.match.a_start, b_start |-> r.match.b_start,
                length |-> r.match.length,
                text |-> Slice(ta, r.match.a_start, r.match.a_start + r.match.length),
                text_in_b |-> Slice(tb, r.match.b_start,
                                    r.match.b_start + r.match.length)]>>
                 \o ExtractedMatches(r.text_a, r.text_b, r.uuid)
        ELSE <<>>

\* Python's float arithmetic on the values of FloatOf
FMul(x, y) ==
    IF x.k = "nan" \/ y.k = "nan" THEN NaN
    ELSE IF x.k = "inf" \/ y.k = "inf"
         THEN (IF (x.k = "fin" /\ x.v = 0) \/ (y.k = "fin" /\ y.v = 0) THEN NaN ELSE Inf)
         ELSE Fin(x.v * y.v)

FAdd(x, y) ==
    IF x.k = "nan" \/ y.k = "nan" THEN NaN
    ELSE IF x.k = "inf" \/ y.k = "inf" THEN Inf
         ELSE Fin(x.v + y.v)

\* Mutant: the weight is left out of the sum.
AccumulateUnweighted(total, overlap_score, weight) == FAdd(total, Fin(overlap_score))

\* Line 169.
Accumulate(total, overlap_score, weight) == FAdd(total, FMul(Fin(overlap_score), weight))

\* space_pat.sub("_", word), lines 186-187
SpacesToUnderscores(word) == [i \in DOMAIN word |-> IF word[i] = " " THEN "_" ELSE word[i]]

\* ---------------------------------------------- the aggregator, step by step
LeskChainTexts ==
    {<<"glos">>, <<"syns">>, <<"hype">>, <<"glos", "(", "hype", ")">>}

LeskTails == {<<>>, <<" ", "2.0">>, <<" ", "nan">>}

LeskLines == {a \o <<"-", "glos">> \o t : a \in LeskChainTexts, t \in LeskTails}

LeskFiles ==
    {<<h>> \o ls : h \in {<<"RelationFile">>, <<"glos", "-", "glos">>},
                   ls \in SeqsUpTo(LeskLines, MaxLeskLines)}

SenseGroups == SeqsUpTo(Synsets, MaxGroup)

LeskWords == {<<"car">>, <<"small", " ", "car">>, <<"zzzznotaword">>}

LeskStopwordSets == {{}, {Word("a")}}

InitLesk ==
    /\ stopwords \in LeskStopwordSets
    /\ relations_loc \in LeskFiles
    /\ lpc = "new"
    /\ self_relations = <<>>
    /\ word_a = <<>>
    /\ word_b = <<>>
    /\ synsets_a = <<>>
    /\ synsets_b = <<>>
    /\ rel_idx = 0
    /\ relatedness_score = Fin(0)
    /\ lresult = [k |-> "none", v |-> 0]
    /\ cache = [k \in {} |-> <<>>]
    /\ calls = 0
    /\ arg_a = <<>>
    /\ arg_b = <<>>
    /\ text_a = <<>>
    /\ text_b = <<>>
    /\ score = 0
    /\ match_found = FALSE
    /\ uuid = 0
    /\ pc = "unused"
    /\ result = -1
    /\ orig_a = <<>>
    /\ orig_b = <<>>
    /\ matches = <<>>
    /\ ReaderIdle

leskFrame == <<stopwords, pc, result, orig_a, orig_b, readerVars, relations_loc,
               calls>>

\* The working copies and the matches of the scorer, as its last call left them
lastScoring == <<text_a, text_b, match_found, matches>>

\* ExtendedLesk.__init__, lines 43-47: self.relations = read_relation_file(...)
Construct ==
    /\ lpc = "new"
    /\ LET r == read_relation_file(relations_loc)
       IN  IF r.raised
           THEN /\ lpc' = "init raised"
                /\ self_relations' = self_relations
           ELSE /\ lpc' = "ready"
                /\ self_relations' = r.relations
    /\ UNCHANGED <<leskFrame, lastScoring, cache, word_a, word_b, synsets_a,
                   synsets_b, rel_idx, relatedness_score, lresult, arg_a, arg_b,
                   score, uuid>>

\* getSynsetRelatedness is called: line 154.
CallSynsetRelatedness ==
    /\ lpc = "ready"
    /\ \E a \in SenseGroups, b \in SenseGroups :
          /\ synsets_a' = a
          /\ synsets_b' = b
    /\ relatedness_score' = Fin(0)
    /\ rel_idx' = 1
    /\ lpc' = "for"
    /\ UNCHANGED <<leskFrame, lastScoring, cache, self_relations, word_a, word_b,
                   lresult, arg_a, arg_b, score, uuid>>

\* getWordRelatedness is called: lines 186-189, and line 154.
CallWordRelatedness ==
    /\ lpc = "ready"
    /\ \E a \in LeskWords, b \in LeskWords :
          /\ word_a' = a
          /\ word_b' = b
          /\ synsets_a' = wn_synsets(SpacesToUnderscores(a))
          /\ synsets_b' = wn_synsets(SpacesToUnderscores(b))
    /\ relatedness_score' = Fin(0)
    /\ rel_idx' = 1
    /\ lpc' = "for"
    /\ UNCHANGED <<leskFrame, lastScoring, cache, self_relations, lresult, arg_a,
                   arg_b, score, uuid>>

\* Lines 156-169: one pass through the for loop over self.relations.
RelationStep ==
    /\ lpc = "for"
    /\ rel_idx <= Len(self_relations)
    /\ LET rel == self_relations[rel_idx]
           a == ApplyChain(rel[1], synsets_a, uuid)
           b == ApplyChain(rel[2], synsets_b, a.uuid)
           keys == ChainKeys(rel[1], synsets_a, uuid)
                       \cup (IF a.raised THEN {} ELSE ChainKeys(rel[2], synsets_b, a.uuid))
       IN  /\ cache' = CacheAfter(keys)
           /\ IF a.raised \/ b.raised
              THEN /\ lpc' = "raised"
                   /\ UNCHANGED <<rel_idx, relatedness_score, arg_a, arg_b, score, uuid,
                                  lastScoring>>
              ELSE \E r \in {getTextOverlapScoreFrom(a.items, b.items, b.uuid)} :
                       /\ arg_a' = CallersList(a.items, r.text_a)
                       /\ arg_b' = CallersList(b.items, r.text_b)
                       /\ text_a' = r.text_a
                       /\ text_b' = r.text_b
                       /\ match_found' = r.match_found
                       /\ matches' = ExtractedMatches(a.items, b.items, b.uuid)
                       /\ score' = r.score
                       /\ uuid' = r.uuid
                       /\ relatedness_score' = Accumulate(relatedness_score, r.score, rel[3])
                       /\ rel_idx' = rel_idx + 1
                       /\ lpc' = "for"
    /\ UNCHANGED <<leskFrame, self_relations, word_a, word_b, synsets_a, synsets_b,
                   lresult>>

\* Line 171: return relatedness_score.
ReturnRelatedness ==
    /\ lpc = "for"
    /\ rel_idx > Len(self_relations)
    /\ lresult' = relatedness_score
    /\ lpc' = "returned"
    /\ UNCHANGED <<leskFrame, lastScoring, cache, self_relations, word_a, word_b,
                   synsets_a, synsets_b, rel_idx, relatedness_score, arg_a, arg_b,
                   score, uuid>>

NextLesk ==
    \/ Construct
    \/ CallSynsetRelatedness
    \/ CallWordRelatedness
    \/ RelationStep
    \/ ReturnRelatedness

SpecLesk == InitLesk /\ [][NextLesk]_vars

\* ------------------------------------- one step of a chain, on its own
\* The files "RelationFile", "t-glos", one for each relation name t.
StepFiles ==
    {<< <<"RelationFile">>, <<t, "-", "glos">> >> : t \in DOMAIN WORDNET_SIM_FUNC_MAP}

InitStep ==
    /\ ScorerIdle
    /\ ReaderIdle
    /\ relations_loc \in StepFiles
    /\ lpc = "new"
    /\ self_relations = <<>>
    /\ word_a = <<>>
    /\ word_b = <<>>
    /\ synsets_a = <<>>
    /\ synsets_b = <<>>
    /\ rel_idx = 0
    /\ relatedness_score = Fin(0)
    /\ lresult = [k |-> "none", v |-> 0]
    /\ cache = [k \in {} |-> <<>>]
    /\ calls = 0

\* Lines 154-160, up to the first pass through the inner loop:
\* a_funcs, b_funcs, weight = self.relations[0]; text_a = synsets_a;
\* text_a = a_funcs[0](text_a).
FirstStep ==
    /\ lpc = "ready"
    /\ \E G \in SenseGroups :
          /\ synsets_a' = G
          /\ arg_a' = ApplyChain(<<self_relations[1][1][1]>>, G, uuid).items
          /\ cache' = CacheAfter(ChainKeys(<<self_relations[1][1][1]>>, G, uuid))
    /\ rel_idx' = 1
    /\ lpc' = "stepped"
    /\ UNCHANGED <<leskFrame, lastScoring, self_relations, word_a, word_b, synsets_b,
                   relatedness_score, lresult, arg_b, score, uuid>>

NextStep == Construct \/ FirstStep

SpecStep == InitStep /\ [][NextStep]_vars

\* ------------------------------------------ several calls on one object
CallsLines ==
    {<<"glos", "-", "glos">>, <<"holo", "-", "syns">>, <<"also", "-", "example">>,
     <<"syns", "-", "glos">>}

CallsFiles == {<< <<"RelationFile">>, l >> : l \in CallsLines}

InitCalls ==
    /\ ScorerIdle
    /\ ReaderIdle
    /\ relations_loc \in CallsFiles
    /\ lpc = "new"
    /\ self_relations = <<>>
    /\ word_a = <<>>
    /\ word_b = <<>>
    /\ synsets_a = <<>>
    /\ synsets_b = <<>>
    /\ rel_idx = 0
    /\ relatedness_score = Fin(0)
    /\ lresult = [k |-> "none", v |-> 0]
    /\ cache = [k \in {} |-> <<>>]
    /\ calls = 0

\* The call has returned and its locals are gone; the object, the markers
\* drawn and the cache stay, and the next call can be made.
NextCall ==
    /\ lpc = "returned"
    /\ calls + 1 < MaxCalls
    /\ calls' = calls + 1
    /\ lpc' = "ready"
    /\ word_a' = <<>>
    /\ word_b' = <<>>
    /\ synsets_a' = <<>>
    /\ synsets_b' = <<>>
    /\ rel_idx' = 0
    /\ relatedness_score' = Fin(0)
    /\ lresult' = [k |-> "none", v |-> 0]
    /\ arg_a' = <<>>
    /\ arg_b' = <<>>
    /\ text_a' = <<>>
    /\ text_b' = <<>>
    /\ score' = 0
    /\ match_found' = FALSE
    /\ matches' = <<>>
    /\ UNCHANGED <<stopwords, uuid, pc, result, orig_a, orig_b, readerVars,
                   relations_loc, self_relations, cache>>

NextCalls ==
    \/ Construct
    \/ CallSynsetRelatedness
    \/ CallWordRelatedness
    \/ RelationStep
    \/ ReturnRelatedness
    \/ NextCall

SpecCalls == InitCalls /\ [][NextCalls]_vars

\* ------------------------------------------------------------------ C1
NoRepeats(s) == \A i, j \in DOMAIN s : i # j => s[i] # s[j]

\* C1 (as stated): the overlap score is symmetric: the score returned for
\* (A, B) equals the score of (B, A), for every A, B and stopword set.
C1_Symmetric ==
    pc = "returned" => result = getTextOverlapScore(arg_b, arg_a)

\* C1 (amended): the score returned for (A, B) equals the score of (B, A)
\* whenever no token occurs twice in A and no token occurs twice in B.
C1_SymmetricNoRepeats ==
    (pc = "returned" /\ NoRepeats(arg_a) /\ NoRepeats(arg_b))
        => result = getTextOverlapScore(arg_b, arg_a)

\* Two tied matches were extracted from repeat-free sequences, and the call
\* with the arguments swapped meets them in the other order.
C1_Witness ==
    /\ pc = "returned"
    /\ NoRepeats(arg_a) /\ NoRepeats(arg_b)
    /\ Len(matches) = 2
    /\ matches[1].length = matches[2].length
    /\ matches[1].b_start > matches[2].b_start
    /\ matches[1].added # matches[2].added

\* ------------------------------------------------------------------ C2
\* C2 (as stated): a non-empty sequence of length L with no stopword
\* strictly inside it (between its first and last token) scores L squared
\* against itself.
C2_SelfScoreNoInternalStopwords ==
    (/\ pc = "returned"
     /\ arg_a = arg_b
     /\ Len(arg_a) > 0
     /\ \A i \in 2..(Len(arg_a) - 1) : arg_a[i] \notin stopwords)
        => result = Len(arg_a) * Len(arg_a)

\* C2 (amended): a non-empty sequence of length L whose first and last
\* tokens are not stopwords scores L squared against itself.
C2_SelfScoreNoBoundaryStopwords ==
    (/\ pc = "returned"
     /\ arg_a = arg_b
     /\ Len(arg_a) > 0
     /\ arg_a[1] \notin stopwords
     /\ arg_a[Len(arg_a)] \notin stopwords)
        => result = Len(arg_a) * Len(arg_a)

\* A sequence with a stopword inside and none at its ends was scored
\* against itself.
C2_Witness ==
    /\ pc = "returned"
    /\ arg_a = arg_b
    /\ Len(arg_a) = MaxLen
    /\ arg_a[1] \notin stopwords
    /\ arg_a[Len(arg_a)] \notin stopwords
    /\ \E i \in 2..(Len(arg_a) - 1) : arg_a[i] \in stopwords
    /\ result = MaxLen * MaxLen

\* ------------------------------------------------------------------ C3
RECURSIVE SumOfLengths(_)
SumOfLengths(ms) ==
    IF ms = <<>> THEN 0 ELSE Head(ms).length + SumOfLengths(Tail(ms))

Range(s) == {s[i] : i \in DOMAIN s}

\* C3: within one call every token position of each input belongs to at most
\* one extracted match (and no match covers a marker), so the raw lengths of
\* the matches sum to at most min(len(A), len(B)); [x,y,x,y] against [x,y]
\* scores exactly 4.
C3_NonOverlap ==
    /\ \A i \in DOMAIN matches :
          /\ -1 \notin Range(matches[i].a_pos)
          /\ -1 \notin Range(matches[i].b_pos)
          /\ Cardinality(Range(matches[i].a_pos)) = matches[i].length
          /\ Cardinality(Range(matches[i].b_pos)) = matches[i].length
    /\ \A i, j \in DOMAIN matches : i < j =>
          /\ Range(matches[i].a_pos) \cap Range(matches[j].a_pos) = {}
          /\ Range(matches[i].b_pos) \cap Range(matches[j].b_pos) = {}
    /\ pc # "idle" => SumOfLengths(matches) <= Min(Len(arg_a), Len(arg_b))
    /\ \A x, y \in Words \ stopwords :
          (pc = "returned" /\ x # y /\ arg_a = <<x, y, x, y>> /\ arg_b = <<x, y>>)
              => result = 4

\* [x,y,x,y] was scored against [x,y]: one match of length 2.
C3_Witness ==
    /\ pc = "returned"
    /\ \E x, y \in Words \ stopwords :
          x # y /\ arg_a = <<x, y, x, y>> /\ arg_b = <<x, y>>
    /\ Len(matches) = 1
    /\ matches[1].length = 2

\* ------------------------------------------------------------------ C4
\* The length of t without its maximal leading and its maximal trailing run
\* of stopwords; 0 when every token is a stopword.
TrimmedLength(t) ==
    LET keep == {i \in DOMAIN t : t[i] \notin stopwords}
    IN  IF keep = {} THEN 0
        ELSE LET first == CHOOSE i \in keep : \A k \in keep : i <= k
                 last == CHOOSE i \in keep : \A k \in keep : k <= i
             IN  last - first + 1

\* C4: each extracted match adds L squared, L the match length without its
\* leading and trailing runs of stopwords; stopwords inside a match count
\* ([cat, the, dog] against itself scores 9); one more stopword at the very
\* start or end of both of two identical sequences leaves the score as it was.
C4_BoundaryTrimming ==
    /\ \A i \in DOMAIN matches :
          matches[i].added = TrimmedLength(matches[i].text) * TrimmedLength(matches[i].text)
    /\ pc = "returned" => \A cat, the, dog \in Words :
          (/\ arg_a = <<cat, the, dog>> /\ arg_b = arg_a
           /\ the \in stopwords /\ cat \notin stopwords /\ dog \notin stopwords)
              => result = 9
    /\ (pc = "returned" /\ arg_a = arg_b /\ Len(arg_a) > 0) =>
          /\ arg_a[1] \in stopwords
                => result = getTextOverlapScore(Tail(arg_a), Tail(arg_a))
          /\ arg_a[Len(arg_a)] \in stopwords
                => result = getTextOverlapScore(SubSeq(arg_a, 1, Len(arg_a) - 1),
                                                SubSeq(arg_a, 1, Len(arg_a) - 1))

\* A match with a stopword at each end and a stopword inside was extracted.
C4_Witness ==
    /\ pc = "returned"
    /\ \E i \in DOMAIN matches :
          LET t == matches[i].text
          IN  /\ Len(t) = MaxLen
              /\ t[1] \in stopwords
              /\ t[Len(t)] \in stopwords
              /\ t[2] \notin stopwords
              /\ matches[i].added = (MaxLen - 2) * (MaxLen - 2)

\* ------------------------------------------------------------------ C5
\* weight times the overlap of the two chains' texts, for one compiled
\* relation, the markers numbered from 0
RelationTerm(rel, A, B) ==
    LET a == ApplyChain(rel[1], A, 0)
        b == ApplyChain(rel[2], B, a.uuid)
    IN  FMul(Fin(getTextOverlapScoreFrom(a.items, b.items, b.uuid).score), rel[3])

RECURSIVE SumOfTerms(_, _, _)
SumOfTerms(rels, A, B) ==
    IF rels = <<>> THEN Fin(0)
    ELSE FAdd(SumOfTerms(SubSeq(rels, 1, Len(rels) - 1), A, B),
              RelationTerm(rels[Len(rels)], A, B))

\* the specification compiled from the single line "glos-glos"
GlosGlos == << <<"concat_definitions">>, <<"concat_definitions">>, Fin(1) >>

\* C5: what getSynsetRelatedness returns is the sum, over the compiled
\* relations in order, of weight times the overlap score of the two chains
\* applied to the two sense groups; with the single relation (glos, glos, 1),
\* glosses "a small vehicle" and "a large vehicle" and stopword "a" it is 1.
C5_WeightedSum ==
    lpc = "returned" =>
        /\ lresult = SumOfTerms(self_relations, synsets_a, synsets_b)
        /\ (/\ self_relations = <<GlosGlos>>
            /\ synsets_a = <<1>>
            /\ synsets_b = <<2>>
            /\ stopwords = {Word("a")}) => lresult = Fin(1)

C5_Witness ==
    /\ lpc = "returned"
    /\ Len(self_relations) = 2
    /\ self_relations[1][3] = Fin(2)
    /\ self_relations[2][3] = Fin(1)
    /\ self_relations[1][1] # self_relations[2][1]
    /\ synsets_a = <<1, 2>>
    /\ synsets_b = <<2>>
    /\ lresult.k = "fin"
    /\ lresult.v > 2

\* ------------------------------------------------------------------ C6
EmptyGroup == synsets_a = <<>> \/ synsets_b = <<>>

\* C6: whenever at least one of the two sense groups is empty the call
\* returns 0 and raises nothing, whatever the compiled relations and the
\* other group.
C6_EmptyGroupScoresZero ==
    (lpc \in {"returned", "raised"} /\ EmptyGroup) =>
        (lpc = "returned" /\ lresult = Fin(0))

\* ------------------------------------------------------------------ C7
\* C7: the overlap score is never negative, and what getSynsetRelatedness
\* returns is a number >= 0, for every relation set the reader compiles.
C7_NonNegative ==
    /\ score >= 0
    /\ lpc = "returned" => (lresult.k # "nan" /\ lresult.v >= 0)

\* ------------------------------------------------------------------ C8
CountOf(l, atom) == Cardinality({i \in DOMAIN l : l[i] = atom})

\* The text before the first "-" of a line, and the text after it.
BeforeDash(l) == SplitOn(l, "-")[1]
AfterDash(l) == SplitOn(l, "-")[2]

\* The vocabulary of relation tokens.
Vocabulary ==
    {"also", "attr", "example", "glos", "holo", "hype", "hypo", "mero", "pert",
     "sim", "syns"}

\* The weight words that are numbers.
NumericWords == {"2.0", "3", "0"}

LacksOneDash(l) == CountOf(l, "-") # 1

HasUnknownToken(l) == \E i \in DOMAIN l : l[i] \in ReaderNames /\ Lower(l[i]) \notin Vocabulary

HasNonNumericWeight(l) ==
    /\ CountOf(l, "-") = 1
    /\ LET fields == SplitWhitespace(AfterDash(l))
       IN  Len(fields) = 2 /\ (Len(fields[2]) # 1 \/ fields[2][1] \notin NumericWords)

HasUnbalancedBrackets(l) ==
    \E half \in {SplitOn(l, "-")[i] : i \in DOMAIN SplitOn(l, "-")} :
        CountOf(half, "(") # CountOf(half, ")")

HeaderMissing(h) == SelectSeq(h, LAMBDA x : x # " ") # <<"RelationFile">>

\* C8: read_relation_file raises for every file whose header is missing or
\* mismatched, or in which a line lacks exactly one "-", or holds a relation
\* token outside the vocabulary, or a non-numeric weight, or unbalanced
\* brackets; no such line is skipped.
C8_FormatErrorsRaise ==
    /\ (lineno >= 1 /\ HeaderMissing(header)) => rpc = "raised"
    /\ (lineno >= 2 /\ (\/ LacksOneDash(line)
                        \/ HasUnknownToken(line)
                        \/ HasNonNumericWeight(line)
                        \/ HasUnbalancedBrackets(line))) => rpc = "raised"

\* ------------------------------------------------------------------ C9
\* The sense-to-token steps.
TokenSteps == {"concat_definitions", "concat_examples", "concat_lemmas"}

WellFormedChain(c) ==
    /\ Len(c) >= 1
    /\ c[Len(c)] \in TokenSteps
    /\ \A i \in 1..(Len(c) - 1) : c[i] \notin TokenSteps

\* The relation names of a chain as authored, in the order written.
AuthoredNames(text) == SelectSeq(text, LAMBDA x : x \notin {"(", ")", " "} \cup WeightWords)

\* The chain the line's side B is authored with: the first field after "-".
ChainBText(l) ==
    LET fields == SplitWhitespace(AfterDash(l))
    IN  IF fields = <<>> THEN <<>> ELSE fields[1]

\* The for loop has just appended the relation of `line`.
LineAccepted == lineno >= 2 /\ rpc = "lines"

GlossAppendedExactlyWhenNeeded(chain, names) ==
    IF Lower(names[Len(names)]) \notin {"glos", "example", "syns"}
    THEN Len(chain) = Len(names) + 1 /\ chain[Len(chain)] = "concat_definitions"
    ELSE Len(chain) = Len(names)

\* C9: every chain of every triple read_relation_file returns has exactly
\* one sense-to-token step, its last; a gloss expansion is appended exactly
\* when the authored chain's final token is none of glos, example, syns;
\* hype-glos 2.0 compiles to ([hypernyms, gloss], [gloss], 2.0); the weight
\* is 1 when omitted.
C9_ChainShape ==
    /\ rpc = "returned" => \A i \in DOMAIN compiled :
          WellFormedChain(compiled[i][1]) /\ WellFormedChain(compiled[i][2])
    /\ LineAccepted =>
          LET r == relations[Len(relations)]
          IN  /\ GlossAppendedExactlyWhenNeeded(r[1], AuthoredNames(BeforeDash(line)))
              /\ GlossAppendedExactlyWhenNeeded(r[2], AuthoredNames(ChainBText(line)))
              /\ line = <<"hype", "-", "glos", " ", "2.0">> =>
                    r = <<<<"get_hypernyms", "concat_definitions">>,
                          <<"concat_definitions">>, Fin(2)>>
              /\ Len(SplitWhitespace(AfterDash(line))) = 1 => r[3] = Fin(1)

\* ----------------------------------------------------------------- C10
\* The chain t1(t2(...(tn)...)) applied innermost first: the step of tn
\* first, the step of t1 last, then the implicit gloss expansion when t1
\* yields senses.
InnermostFirst(names) ==
    LET steps == [i \in DOMAIN names |->
                     WORDNET_SIM_FUNC_MAP[Lower(names[Len(names) + 1 - i])]]
    IN  IF Lower(names[1]) \notin {"glos", "example", "syns"}
        THEN Append(steps, "concat_definitions")
        ELSE steps

\* C10: a nested chain t1(t2(...(tn)...)) compiles to the steps of tn first
\* and t1 last, in the order getSynsetRelatedness applies them, followed by
\* the implicit gloss expansion when t1 yields senses.
C10_InnermostFirst ==
    LineAccepted =>
        LET r == relations[Len(relations)]
        IN  /\ r[1] = InnermostFirst(AuthoredNames(BeforeDash(line)))
            /\ r[2] = InnermostFirst(AuthoredNames(ChainBText(line)))

\* ----------------------------------------------------------------- C11
\* The sense-to-sense relation names.
SenseTokens == {"also", "attr", "holo", "hype", "hypo", "mero", "pert", "sim"}

\* The synsets of the lemmas in a list
SynsetsOfLemmas(lemmas) == [i \in DOMAIN lemmas |-> lemmas[i][1]]

\* The lemmas of a synset, in order
LemmasOf(s) == [i \in DOMAIN lemma_names[s] |-> <<s, i>>]

\* What the lexical database gives for the relation t names, for one sense.
ProviderTargets(t, s) ==
    CASE t = "also" ->
           synset_also_sees[s]
               \o Concat([i \in DOMAIN LemmasOf(s) |->
                             SynsetsOfLemmas(lemma_also_sees(LemmasOf(s)[i]))])
      [] t = "attr" -> attributes[s]
      [] t = "holo" -> member_holonyms[s] \o part_holonyms[s] \o substance_holonyms[s]
      [] t = "hype" -> hypernyms[s] \o instance_hypernyms[s]
      [] t = "hypo" -> hyponyms[s] \o instance_hyponyms[s]
      [] t = "mero" -> member_meronyms[s] \o part_meronyms[s] \o substance_meronyms[s]
      [] t = "pert" ->
           Concat([i \in DOMAIN LemmasOf(s) |->
                      SynsetsOfLemmas(lemma_pertainyms(LemmasOf(s)[i]))])
      [] t = "sim" -> similar_tos[s]

\* The relation name the file's line starts with.
StepToken == relations_loc[2][1]

\* The tokens for which the compiled step gives the provider's targets.
StepExpandsOwnKind(tokens) ==
    (lpc = "stepped" /\ StepToken \in tokens) =>
        arg_a = Concat([i \in DOMAIN synsets_a |->
                           ProviderTargets(StepToken, synsets_a[i])])

\* C11: for every sense-to-sense token t and every sense group G, the step
\* compiled from t, applied to G, returns the concatenation over the senses
\* of G, in order and with duplicates, of the provider's targets for the
\* relation t names.
C11_StepExpandsOwnKind == StepExpandsOwnKind(SenseTokens)

\* The same for the tokens other than hypo and sim.
C11_OtherTokens == StepExpandsOwnKind(SenseTokens \ {"hypo", "sim"})

C11_OtherTokensWitness ==
    /\ lpc = "stepped"
    /\ StepToken = "holo"
    /\ synsets_a = <<1, 1>>
    /\ arg_a = <<2, 3, 2, 3>>

\* ----------------------------------------------------------------- C13
\* C13: within one getTextOverlapScore call the raw lengths of the matches
\* extracted one after the other never increase.
C13_LongestFirst ==
    \A i \in DOMAIN matches : \A j \in DOMAIN matches :
        i < j => matches[i].length >= matches[j].length

C13_Witness ==
    /\ pc = "returned"
    /\ Len(matches) = 3
    /\ matches[1].length = 2
    /\ matches[2].length = 1
    /\ matches[3].length = 1

\* ----------------------------------------------------------------- C15
\* The number of tokens of a working copy that are not markers.
NonMarkers(text) == Cardinality({i \in DOMAIN text : text[i] > 0})

\* An iteration that found a match has consumed it: both copies hold
\* fewer non-marker tokens than before.
MatchConsumed ==
    Len(matches') > Len(matches) =>
        /\ NonMarkers(text_a') < NonMarkers(text_a)
        /\ NonMarkers(text_b') < NonMarkers(text_b)

\* The loop has ended.
LoopEnded == pc = "returned" /\ ~match_found

\* When the loop has ended the last match looked for has length 0.
EndsOnEmptyMatch == LoopEnded => find_longest_match(text_a, text_b).length = 0

\* C15: the loop of getTextOverlapScore terminates: every iteration that
\* finds a match of positive length, one made only of stopwords included,
\* consumes it, so both working copies lose non-marker tokens, at most
\* min(len(A), len(B)) matches are extracted, and the loop ends with a
\* match of length 0.
C15_LoopTerminates ==
    /\ [][MatchConsumed]_vars
    /\ [](Len(matches) <= Min(Len(arg_a), Len(arg_b)))
    /\ []EndsOnEmptyMatch
    /\ <>LoopEnded

C15_Witness ==
    /\ pc = "returned"
    /\ Len(arg_a) = 2
    /\ Len(arg_b) = 2
    /\ Len(matches) = 2
    /\ matches[1].length = 1
    /\ matches[1].added = 0
    /\ matches[2].added = 1

\* ----------------------------------------------------------------- C12
\* The tokens of every definition, example and lemma name of the database:
\* the contributions a token sequence is put together from.
SenseTexts ==
    UNION {
        {TokensOf(SplitWhitespace(LowerAll(definition[s])))}
          \cup {TokensOf(SplitWhitespace(LowerAll(examples[s][j]))) :
                    j \in DOMAIN examples[s]}
          \cup {TokensOf(SplitOn(LowerAll(lemma_names[s][j]), "_")) :
                    j \in DOMAIN lemma_names[s]}
        : s \in Synsets}

IsMarker(token) == token < 0

\* Each marker of the two texts occurs once in both together, and is no word.
MarkersOccurOnce(ta, tb) ==
    LET both == ta \o tb
    IN  \A i \in DOMAIN both :
            IsMarker(both[i]) =>
                /\ both[i] \notin DOMAIN Dictionary
                /\ \A j \in DOMAIN both : both[j] = both[i] => j = i

\* The stretches of a text between its markers are each one contribution.
SplitIntoContributions(text) ==
    \A i \in DOMAIN text : \A j \in i..Len(text) :
        (/\ \A n \in i..j : ~IsMarker(text[n])
         /\ (i = 1 \/ IsMarker(text[i - 1]))
         /\ (j = Len(text) \/ IsMarker(text[j + 1])))
            => SubSeq(text, i, j) \in SenseTexts

IsSublist(part, text) ==
    \E i \in 0..(Len(text) - Len(part)) : SubSeq(text, i + 1, i + Len(part)) = part

\* The match holds no marker and lies within one contribution.
WithinOneContribution(match_text) ==
    /\ \A n \in DOMAIN match_text : ~IsMarker(match_text[n])
    /\ \E t \in SenseTexts : IsSublist(match_text, t)

AllLemmas == UNION {{<<s, j>> : j \in DOMAIN lemma_names[s]} : s \in Synsets}

\* No list the cache holds has a marker in it.
CacheHoldsNoMarker ==
    \A k \in DOMAIN cache : \A n \in DOMAIN cache[k] :
        CASE k[1] = "_get_lemma_names" ->
               \E j \in DOMAIN lemma_names[k[2]] :
                   cache[k][n] = LowerAll(lemma_names[k[2]][j])
          [] k[1] = "_get_lemmas" \/ (k[1] = "_get_also_sees" /\ k[3] # 0) ->
               cache[k][n] \in AllLemmas
          [] OTHER -> cache[k][n] \in Synsets

\* getSynsetRelatedness has handed arg_a and arg_b to the scorer, which has
\* returned.
Scored == lpc = "for" /\ rel_idx > 1

\* C12: in the two token sequences handed to the scorer, and in its working
\* copies, each marker occurs once across both and equals no word; no
\* extracted match holds a marker or spans two contributions; and no marker
\* is held in the cache, whatever calls came before.
C12_MarkersBlockBoundaries ==
    /\ CacheHoldsNoMarker
    /\ Scored =>
          /\ MarkersOccurOnce(arg_a, arg_b)
          /\ MarkersOccurOnce(text_a, text_b)
          /\ SplitIntoContributions(arg_a)
          /\ SplitIntoContributions(arg_b)
          /\ \A n \in DOMAIN matches :
                /\ WithinOneContribution(matches[n].text)
                /\ matches[n].text_in_b = matches[n].text

C12_Witness ==
    /\ Scored
    /\ calls = 1
    /\ relations_loc[2] = <<"holo", "-", "syns">>
    /\ synsets_a = <<1>>
    /\ synsets_b = <<3, 3>>
    /\ arg_a = <<Word("a"), Word("large"), Word("vehicle"), Uuid4(0),
                 Word("vehicle"), Word("a"), Word("large")>>
    /\ arg_b = <<Word("vehicle"), Uuid4(1), Word("vehicle")>>
    /\ Len(matches) = 2
    /\ score = 2
    /\ <<"_get_lemma_names", 3, 0>> \in DOMAIN cache

\* ----------------------------------------------------------------- C14
\* What a step of a call leaves as it was: the two sense groups and the two
\* words of the caller, every list the cache holds, and, when the step has
\* scored a relation, the two token lists handed to the scorer.
InputsAndCacheUntouched ==
    /\ lpc = "for" =>
          /\ synsets_a' = synsets_a
          /\ synsets_b' = synsets_b
          /\ word_a' = word_a
          /\ word_b' = word_b
    /\ \A k \in DOMAIN cache : k \in DOMAIN cache' /\ cache'[k] = cache[k]
    /\ (lpc = "for" /\ rel_idx' = rel_idx + 1) =>
          LET rel == self_relations[rel_idx]
              a == ApplyChain(rel[1], synsets_a, uuid)
              b == ApplyChain(rel[2], synsets_b, a.uuid)
          IN  arg_a' = a.items /\ arg_b' = b.items

====
